---- MODULE Spec2Model ----
(***************************************************************************)
(* git_chron_job.py: main() and get_commit_log(repo_path).                 *)
(*                                                                         *)
(* One run of the script is modelled as a sequential process.  The         *)
(* environment (command line, file system, the git tool and what it        *)
(* writes) is fixed by Init; the actions are the statements of main and    *)
(* get_commit_log.  Output lines are tuples of one-character strings, a    *)
(* datetime is a record of its calendar fields plus its tzinfo, and a      *)
(* timedelta / instant is a pair <<days, seconds>> as in the datetime      *)
(* module.                                                                 *)
(***************************************************************************)
EXTENDS Integers, Sequences, FiniteSets

(***************************************************************************)
(* Bounds of the model.                                                    *)
(***************************************************************************)
\* longest combined output (in lines) the tool writes
MaxLines == 3
\* most command-line arguments after the program name
MaxArgs == 2

(***************************************************************************)
(* The lines the tool can write.  `git log --pretty=format:%cd             *)
(* --date=iso-strict` writes one commit date per commit; stderr is merged  *)
(* into the same stream (stderr=subprocess.STDOUT), so free text and       *)
(* blank lines can appear between them.                                    *)
(***************************************************************************)
\* "2024-01-15T12:00:00-05:00"
LineWinter ==
    <<"2", "0", "2", "4", "-", "0", "1", "-", "1", "5", "T", "1", "2", ":", "0", "0", ":", "0", "0", "-", "0", "5", ":", "0", "0">>
\* "2024-07-15T12:00:00Z"
LineSummerZ ==
    <<"2", "0", "2", "4", "-", "0", "7", "-", "1", "5", "T", "1", "2", ":", "0", "0", ":", "0", "0", "Z">>
\* "2024-11-03T01:30:00-07:00"  (08:30 UTC, the first 01:30 of the repeated hour)
LineFallPDT ==
    <<"2", "0", "2", "4", "-", "1", "1", "-", "0", "3", "T", "0", "1", ":", "3", "0", ":", "0", "0", "-", "0", "7", ":", "0", "0">>
\* "2024-11-03T09:15:00+00:00"  (the second 01:15 of the repeated hour)
LineFallPST ==
    <<"2", "0", "2", "4", "-", "1", "1", "-", "0", "3", "T", "0", "9", ":", "1", "5", ":", "0", "0", "+", "0", "0", ":", "0", "0">>
\* "2024-03-10T15:29:59+05:30"  (09:59:59 UTC, one second before the spring change)
LineSpringIST ==
    <<"2", "0", "2", "4", "-", "0", "3", "-", "1", "0", "T", "1", "5", ":", "2", "9", ":", "5", "9", "+", "0", "5", ":", "3", "0">>
\* "10000-01-01T00:00:00+00:00"  (git prints years past 9999 with five digits)
LineYear10000 ==
    <<"1", "0", "0", "0", "0", "-", "0", "1", "-", "0", "1", "T", "0", "0", ":", "0", "0", ":", "0", "0", "+", "0", "0", ":", "0", "0">>
\* "9999-12-31T23:59:59-12:00"  (a valid date whose UTC instant is in year 10000)
LineOutOfRange ==
    <<"9", "9", "9", "9", "-", "1", "2", "-", "3", "1", "T", "2", "3", ":", "5", "9", ":", "5", "9", "-", "1", "2", ":", "0", "0">>
\* "not-a-date"
LineNotADate ==
    <<"n", "o", "t", "-", "a", "-", "d", "a", "t", "e">>
\* " "
LineBlank ==
    <<" ">>

\* the lines git writes for commits (one per commit)
CommitLines ==
    {LineWinter, LineSummerZ, LineFallPDT, LineFallPST, LineSpringIST,
     LineYear10000, LineOutOfRange}

\* everything that can appear in the combined stdout/stderr stream
LinePool ==
    CommitLines \cup {LineNotADate, LineBlank}

BoundedSeq(S, n) ==
    UNION {[1..k -> S] : k \in 0..n}

(***************************************************************************)
(* The file system and the command line.                                   *)
(***************************************************************************)
\* "/nowhere" does not exist; "/plain" is a directory without .git;
\* "/bogus" has a .git entry that git does not accept; "/repo" is a
\* repository whose history is the variable repoLines.
Paths ==
    {"/nowhere", "/plain", "/bogus", "/repo"}

\* os.path.exists(repo_path)
PathExists(p) ==
    p \in {"/plain", "/bogus", "/repo"}

\* a second test of the path itself instead of its '.git' entry
HasGitEntry_samePath(p) ==
    PathExists(p)

\* os.path.exists(os.path.join(repo_path, '.git'))
HasGitEntry(p) ==
    p \in {"/bogus", "/repo"}

(***************************************************************************)
(* str methods used on a line.                                             *)
(***************************************************************************)
Digits ==
    {"0", "1", "2", "3", "4", "5", "6", "7", "8", "9"}

DigitVal(c) ==
    CASE c = "0" -> 0 [] c = "1" -> 1 [] c = "2" -> 2 [] c = "3" -> 3
      [] c = "4" -> 4 [] c = "5" -> 5 [] c = "6" -> 6 [] c = "7" -> 7
      [] c = "8" -> 8 [] c = "9" -> 9

\* date_str.strip() is empty
IsBlank(line) ==
    \A k \in 1..Len(line) : line[k] = " "

RECURSIVE ReplaceZ(_)
\* date_str.replace('Z', '+00:00')
ReplaceZ(line) ==
    IF line = <<>> THEN <<>>
    ELSE (IF Head(line) = "Z" THEN <<"+", "0", "0", ":", "0", "0">> ELSE <<Head(line)>>)
         \o ReplaceZ(Tail(line))

(***************************************************************************)
(* Calendar arithmetic of the datetime module.                             *)
(***************************************************************************)
MaxOrdinal == 3652059

IsLeap(y) ==
    y % 4 = 0 /\ (y % 100 # 0 \/ y % 400 = 0)

DaysBeforeYear(y) ==
    LET y1 == y - 1 IN y1 * 365 + (y1 \div 4) - (y1 \div 100) + (y1 \div 400)

DaysInMonth(y, m) ==
    IF m = 2 THEN (IF IsLeap(y) THEN 29 ELSE 28)
    ELSE IF m \in {4, 6, 9, 11} THEN 30 ELSE 31

DaysBeforeMonthTable ==
    <<0, 31, 59, 90, 120, 151, 181, 212, 243, 273, 304, 334>>

DaysBeforeMonth(y, m) ==
    DaysBeforeMonthTable[m] + (IF m > 2 /\ IsLeap(y) THEN 1 ELSE 0)

\* _ymd2ord: 0001-01-01 is day 1
Ymd2Ord(y, m, d) ==
    DaysBeforeYear(y) + DaysBeforeMonth(y, m) + d

\* _ord2ymd
Ord2Ymd(ord) ==
    LET n0   == ord - 1
        n400 == n0 \div 146097
        r400 == n0 % 146097
        n100 == r400 \div 36524
        r100 == r400 % 36524
        n4   == r100 \div 1461
        r4   == r100 % 1461
        n1   == r4 \div 365
        n    == r4 % 365
        year == n400 * 400 + 1 + n100 * 100 + n4 * 4 + n1
    IN  IF n1 = 4 \/ n100 = 4
        THEN [year |-> year - 1, month |-> 12, day |-> 31]
        ELSE LET leap  == n1 = 3 /\ (n4 # 24 \/ n100 = 3)
                 m0    == (n + 50) \div 32
                 prec0 == DaysBeforeMonthTable[m0] + (IF m0 > 2 /\ leap THEN 1 ELSE 0)
                 month == IF prec0 > n THEN m0 - 1 ELSE m0
                 dim   == IF month = 2 THEN (IF leap THEN 29 ELSE 28)
                          ELSE IF month \in {4, 6, 9, 11} THEN 30 ELSE 31
                 prec  == IF prec0 > n THEN prec0 - dim ELSE prec0
             IN  [year |-> year, month |-> month, day |-> n - prec + 1]

\* date.weekday(): Monday is 0
Weekday(ord) ==
    (ord + 6) % 7

\* timedelta normalisation: 0 <= seconds < 86400
Normalize(days, secs) ==
    <<days + (secs \div 86400), secs % 86400>>

\* lexicographic order on <<days, seconds>>
TdLess(a, b) ==
    a[1] < b[1] \/ (a[1] = b[1] /\ a[2] < b[2])

TdLeq(a, b) ==
    a = b \/ TdLess(a, b)

\* the naive value of a datetime: its wall-clock fields as <<ordinal, seconds of day>>
Wall(dt) ==
    <<Ymd2Ord(dt.year, dt.month, dt.day), dt.hour * 3600 + dt.minute * 60 + dt.second>>

\* datetime.combine(date.fromordinal(days), time) with the given tzinfo
FromWall(w, tz) ==
    LET ymd == Ord2Ymd(w[1])
    IN  [year |-> ymd.year, month |-> ymd.month, day |-> ymd.day,
         hour |-> w[2] \div 3600, minute |-> (w[2] % 3600) \div 60,
         second |-> w[2] % 60, tz |-> tz]

(***************************************************************************)
(* datetime.fromisoformat on the form iso-strict writes,                   *)
(* YYYY-MM-DD?HH:MM:SS(+|-)HH:MM; any other text raises ValueError.        *)
(***************************************************************************)
NoDt ==
    [year |-> 0, month |-> 0, day |-> 0, hour |-> 0, minute |-> 0, second |-> 0,
     tz |-> [zone |-> "none", utcoffset |-> 0, dst |-> 0, tzname |-> ""]]

\* datetime.timezone(timedelta(seconds = secs))
FixedOffset(secs) ==
    [zone |-> "fixed", utcoffset |-> secs, dst |-> 0, tzname |-> "UTC"]

Num2(s, k) ==
    DigitVal(s[k]) * 10 + DigitVal(s[k + 1])

\* result of datetime.fromisoformat(s): ok = FALSE stands for ValueError
FromIsoFormat(s) ==
    LET shape == /\ Len(s) = 25
                 /\ \A k \in {1, 2, 3, 4, 6, 7, 9, 10, 12, 13, 15, 16, 18, 19, 21, 22, 24, 25} :
                        s[k] \in Digits
                 /\ s[5] = "-" /\ s[8] = "-"
                 /\ s[14] = ":" /\ s[17] = ":"
                 /\ s[20] \in {"+", "-"} /\ s[23] = ":"
    IN  IF ~shape THEN [ok |-> FALSE, dt |-> NoDt]
        ELSE LET year   == Num2(s, 1) * 100 + Num2(s, 3)
                 month  == Num2(s, 6)
                 day    == Num2(s, 9)
                 hour   == Num2(s, 12)
                 minute == Num2(s, 15)
                 second == Num2(s, 18)
                 tzsecs == Num2(s, 21) * 3600 + Num2(s, 24) * 60
                 valid  == /\ year >= 1
                           /\ month \in 1..12
                           /\ day >= 1 /\ day <= DaysInMonth(year, month)
                           /\ hour < 24 /\ minute < 60 /\ second < 60
                           /\ tzsecs < 86400
             IN  IF ~valid THEN [ok |-> FALSE, dt |-> NoDt]
                 ELSE [ok |-> TRUE,
                       dt |-> [year |-> year, month |-> month, day |-> day,
                               hour |-> hour, minute |-> minute, second |-> second,
                               tz |-> FixedOffset(IF s[20] = "-" THEN 0 - tzsecs ELSE tzsecs)]]

(***************************************************************************)
(* pytz.timezone('America/Los_Angeles'): the UTC transition table and the  *)
(* tzinfo in force after each transition.  The table holds the first       *)
(* entry and the transitions of TzFirstYear..TzLastYear (US rule since     *)
(* 2007: second Sunday of March 10:00 UTC, first Sunday of November        *)
(* 09:00 UTC); the pytz table ends with 2037.                              *)
(***************************************************************************)
TzFirstYear == 2007
TzLastYear == 2037

PST ==
    [zone |-> "America/Los_Angeles", utcoffset |-> 0 - 28800, dst |-> 0, tzname |-> "PST"]

PDT ==
    [zone |-> "America/Los_Angeles", utcoffset |-> 0 - 25200, dst |-> 3600, tzname |-> "PDT"]

\* day of month of the n-th Sunday of month m of year y
NthSunday(y, m, n) ==
    1 + ((6 - Weekday(Ymd2Ord(y, m, 1))) % 7) + 7 * (n - 1)

\* _utc_transition_times
UtcTransitionTimes ==
    [k \in 1..(2 * (TzLastYear - TzFirstYear + 1) + 1) |->
        IF k = 1 THEN <<1, 0>>
        ELSE LET y == TzFirstYear + (k \div 2) - 1
             IN  IF k % 2 = 0
                 THEN <<Ymd2Ord(y, 3, NthSunday(y, 3, 2)), 36000>>
                 ELSE <<Ymd2Ord(y, 11, NthSunday(y, 11, 1)), 32400>>]

\* _transition_info
TransitionInfo ==
    [k \in 1..(2 * (TzLastYear - TzFirstYear + 1) + 1) |->
        IF k % 2 = 0 THEN PDT ELSE PST]

\* bisect_right(_utc_transition_times, utc)
BisectRight(utc) ==
    Cardinality({k \in DOMAIN UtcTransitionTimes : TdLeq(UtcTransitionTimes[k], utc)})

\* the tzinfo of alternative implementations: one fixed offset all year
FromUtc_fixedOffset(utc) ==
    LET w == Normalize(utc[1], utc[2] + PST.utcoffset)
    IN  IF w[1] >= 1 /\ w[1] <= MaxOrdinal
        THEN [ok |-> TRUE, dt |-> FromWall(w, PST)]
        ELSE [ok |-> FALSE, dt |-> NoDt]

\* DstTzInfo.fromutc: utc is the naive UTC value <<ordinal, seconds>>
FromUtc(utc) ==
    LET count == BisectRight(utc)
        inf   == TransitionInfo[IF count > 1 THEN count ELSE 1]
        w     == Normalize(utc[1], utc[2] + inf.utcoffset)
    IN  IF w[1] >= 1 /\ w[1] <= MaxOrdinal
        THEN [ok |-> TRUE, dt |-> FromWall(w, inf)]
        ELSE [ok |-> FALSE, dt |-> NoDt]

\* utc_time.astimezone(pst): ok = FALSE stands for OverflowError
AsTimezone(dt) ==
    LET w   == Wall(dt)
        utc == Normalize(w[1], w[2] - dt.tz.utcoffset)
    IN  IF utc[1] >= 1 /\ utc[1] <= MaxOrdinal
        THEN FromUtc(utc)
        ELSE [ok |-> FALSE, dt |-> NoDt]

(***************************************************************************)
(* Ordering of aware datetimes and list.sort().                            *)
(***************************************************************************)
\* the instant of an aware datetime: its wall-clock value minus its UTC offset
Instant(dt) ==
    LET w == Wall(dt) IN Normalize(w[1], w[2] - dt.tz.utcoffset)

\* ordering by the calendar fields alone, whatever the tzinfo
DtLess_wallClock(a, b) ==
    TdLess(Wall(a), Wall(b))

\* datetime.__lt__: same tzinfo (or same offset) compares the fields,
\* otherwise the difference of the instants decides
DtLess(a, b) ==
    IF a.tz = b.tz \/ a.tz.utcoffset = b.tz.utcoffset
    THEN TdLess(Wall(a), Wall(b))
    ELSE TdLess(Instant(a), Instant(b))

RECURSIVE SortedInsert(_, _)
SortedInsert(x, s) ==
    IF s = <<>> THEN <<x>>
    ELSE IF DtLess(x, Head(s)) THEN <<x>> \o s
    ELSE <<Head(s)>> \o SortedInsert(x, Tail(s))

RECURSIVE ListSort(_)
\* parsed_dates.sort(): stable, ascending by __lt__
ListSort(s) ==
    IF s = <<>> THEN <<>>
    ELSE SortedInsert(s[Len(s)], ListSort(SubSeq(s, 1, Len(s) - 1)))

(***************************************************************************)
(* strftime('%A, %Y-%m-%d %H:%M:%S %Z'), as the record of its fields.      *)
(***************************************************************************)
DayNames ==
    <<"Monday", "Tuesday", "Wednesday", "Thursday", "Friday", "Saturday", "Sunday">>

StrfTime(dt) ==
    [weekday |-> DayNames[Weekday(Ymd2Ord(dt.year, dt.month, dt.day)) + 1],
     year |-> dt.year, month |-> dt.month, day |-> dt.day,
     hour |-> dt.hour, minute |-> dt.minute, second |-> dt.second,
     zone |-> dt.tz.tzname]

(***************************************************************************)
(* The git tool.  `git -C path log` exits with status 128 and a "fatal:"   *)
(* text when the path is not a repository git accepts and when the         *)
(* current branch has no commit; otherwise it exits with 0 after writing   *)
(* the stream.                                                             *)
(***************************************************************************)
NumCommits(lines) ==
    Cardinality({k \in DOMAIN lines : lines[k] \in CommitLines})

GitLog(path, lines) ==
    IF path # "/repo"
    THEN [status |-> 128, output |-> <<<<"fatal: not a git repository">>>>]
    ELSE IF NumCommits(lines) = 0
    THEN [status |-> 128, output |-> <<<<"fatal: your current branch does not have any commits yet">>>>]
    ELSE [status |-> 0, output |-> lines]

(***************************************************************************)
(* State.                                                                  *)
(***************************************************************************)
VARIABLES
    argv,          \* sys.argv: the program name followed by the arguments
    repoLines,     \* what git writes for the history of "/repo"
    gitInstalled,  \* whether a git executable is on the PATH
    pc,            \* the statement the process is at
    calls,         \* the arguments get_commit_log has been called with
    repo_path,     \* parameter of get_commit_log
    proc,          \* the subprocess: state, exit status, captured output
    spawned,       \* number of subprocesses started
    log_output,    \* the captured output, split into lines
    idx,           \* number of lines the for loop has taken
    parsed_dates,  \* the list being collected
    shown,         \* number of dates the report loop has printed
    exc,           \* the exception being raised, "none" if none
    stdout,        \* what has been printed, one record per print call
    ret,           \* what get_commit_log returned
    exitStatus     \* exit status of the process, -1 while it runs

vars ==
    <<argv, repoLines, gitInstalled, pc, calls, repo_path, proc, spawned,
      log_output, idx, parsed_dates, shown, exc, stdout, ret, exitStatus>>

env ==
    <<argv, repoLines, gitInstalled>>

NoProc ==
    [state |-> "none", status |-> 0, output |-> <<>>]

Unset ==
    [kind |-> "unset", val |-> <<>>]

None ==
    [kind |-> "None", val |-> <<>>]

RuleWidth == 60

Init ==
    /\ \E args \in BoundedSeq(Paths, MaxArgs) : argv = <<"git_chron_job.py">> \o args
    /\ repoLines \in BoundedSeq(LinePool, MaxLines)
    /\ gitInstalled \in BOOLEAN
    \* the parts of the environment a run never looks at are left at a default
    /\ (argv # <<"git_chron_job.py", "/repo">> => repoLines = <<>>)
    /\ (~(Len(argv) = 2 /\ HasGitEntry(argv[2])) => gitInstalled)
    /\ pc = "main"
    /\ calls = <<>>
    /\ repo_path = ""
    /\ proc = NoProc
    /\ spawned = 0
    /\ log_output = <<>>
    /\ idx = 0
    /\ parsed_dates = <<>>
    /\ shown = 0
    /\ exc = "none"
    /\ stdout = <<>>
    /\ ret = Unset
    /\ exitStatus = -1

Emit(msg) ==
    stdout' = Append(stdout, msg)

(***************************************************************************)
(* main()                                                                  *)
(***************************************************************************)
\* a test that only rejects a missing argument
WrongArgCount_tooFew(av) ==
    Len(av) < 2

\* len(sys.argv) != 2
WrongArgCount(av) ==
    Len(av) # 2

\* lines 81-83: usage message, sys.exit(1)
MainUsage ==
    /\ pc = "main"
    /\ WrongArgCount(argv)
    /\ Emit([kind |-> "Usage"])
    /\ exitStatus' = 1
    /\ pc' = "exited"
    /\ UNCHANGED <<env, calls, repo_path, proc, spawned, log_output, idx,
                   parsed_dates, shown, exc, ret>>

\* lines 85-86: get_commit_log(sys.argv[1])
MainCall ==
    /\ pc = "main"
    /\ ~WrongArgCount(argv)
    /\ repo_path' = argv[2]
    /\ calls' = Append(calls, argv[2])
    /\ pc' = "check_exists"
    /\ UNCHANGED <<env, proc, spawned, log_output, idx, parsed_dates, shown,
                   exc, stdout, ret, exitStatus>>

\* falling off the end of main: the interpreter exits with status 0
MainExit ==
    /\ pc = "main_return"
    /\ exitStatus' = 0
    /\ pc' = "exited"
    /\ UNCHANGED <<env, calls, repo_path, proc, spawned, log_output, idx,
                   parsed_dates, shown, exc, stdout, ret>>

(***************************************************************************)
(* get_commit_log(repo_path): validation, lines 22-28                      *)
(***************************************************************************)
PathMissing ==
    /\ pc = "check_exists"
    /\ ~PathExists(repo_path)
    /\ Emit([kind |-> "ErrorNotFound", path |-> repo_path])
    /\ ret' = None
    /\ pc' = "main_return"
    /\ UNCHANGED <<env, calls, repo_path, proc, spawned, log_output, idx,
                   parsed_dates, shown, exc, exitStatus>>

PathFound ==
    /\ pc = "check_exists"
    /\ PathExists(repo_path)
    /\ pc' = "check_git"
    /\ UNCHANGED <<env, calls, repo_path, proc, spawned, log_output, idx,
                   parsed_dates, shown, exc, stdout, ret, exitStatus>>

NotARepository ==
    /\ pc = "check_git"
    /\ ~HasGitEntry(repo_path)
    /\ Emit([kind |-> "ErrorNotRepo", path |-> repo_path])
    /\ ret' = None
    /\ pc' = "main_return"
    /\ UNCHANGED <<env, calls, repo_path, proc, spawned, log_output, idx,
                   parsed_dates, shown, exc, exitStatus>>

IsRepository ==
    /\ pc = "check_git"
    /\ HasGitEntry(repo_path)
    /\ pc' = "spawn"
    /\ UNCHANGED <<env, calls, repo_path, proc, spawned, log_output, idx,
                   parsed_dates, shown, exc, stdout, ret, exitStatus>>

(***************************************************************************)
(* subprocess.check_output, lines 32-36                                    *)
(***************************************************************************)
\* Popen starts git
SpawnGit ==
    /\ pc = "spawn"
    /\ gitInstalled
    /\ spawned' = spawned + 1
    /\ proc' = [state |-> "running", status |-> 0, output |-> <<>>]
    /\ pc' = "communicate"
    /\ UNCHANGED <<env, calls, repo_path, log_output, idx, parsed_dates,
                   shown, exc, stdout, ret, exitStatus>>

\* Popen finds no executable: the forked child is reaped and
\* FileNotFoundError is raised
SpawnFails ==
    /\ pc = "spawn"
    /\ ~gitInstalled
    /\ spawned' = spawned + 1
    /\ proc' = [state |-> "reaped", status |-> 255, output |-> <<>>]
    /\ exc' = "FileNotFoundError"
    /\ pc' = "except"
    /\ UNCHANGED <<env, calls, repo_path, log_output, idx, parsed_dates,
                   shown, stdout, ret, exitStatus>>

\* communicate() without the final wait: the output is read, the child is
\* left unreaped and its status unknown
Communicate_noWait ==
    /\ pc = "communicate"
    /\ proc' = [state |-> "running", status |-> 0,
                output |-> GitLog(repo_path, repoLines).output]
    /\ pc' = "check_status"
    /\ UNCHANGED <<env, calls, repo_path, spawned, log_output, idx,
                   parsed_dates, shown, exc, stdout, ret, exitStatus>>

\* communicate(): read the combined output to its end, wait for the child
Communicate ==
    /\ pc = "communicate"
    /\ LET r == GitLog(repo_path, repoLines)
       IN  proc' = [state |-> "reaped", status |-> r.status, output |-> r.output]
    /\ pc' = "check_status"
    /\ UNCHANGED <<env, calls, repo_path, spawned, log_output, idx,
                   parsed_dates, shown, exc, stdout, ret, exitStatus>>

\* check_output treats every status but 0 as the failure
ReturnCodeFails_negative(status) ==
    status < 0

\* `if retcode:` in check_output
ReturnCodeFails(status) ==
    status # 0

\* raise CalledProcessError(retcode, cmd, output)
GitFailed ==
    /\ pc = "check_status"
    /\ ReturnCodeFails(proc.status)
    /\ exc' = "CalledProcessError"
    /\ pc' = "except"
    /\ UNCHANGED <<env, calls, repo_path, proc, spawned, log_output, idx,
                   parsed_dates, shown, stdout, ret, exitStatus>>

\* log_output = ...; log_output.splitlines(); parsed_dates = []
GitSucceeded ==
    /\ pc = "check_status"
    /\ ~ReturnCodeFails(proc.status)
    /\ log_output' = proc.output
    /\ parsed_dates' = <<>>
    /\ idx' = 0
    /\ pc' = "parse"
    /\ UNCHANGED <<env, calls, repo_path, proc, spawned, shown, exc, stdout,
                   ret, exitStatus>>

(***************************************************************************)
(* The for loop over log_output.splitlines(), lines 43-53                  *)
(***************************************************************************)
\* the line the loop takes next
DateStr ==
    log_output[idx + 1]

\* line 44-45: blank line, continue
SkipBlank ==
    /\ pc = "parse"
    /\ idx < Len(log_output)
    /\ IsBlank(DateStr)
    /\ idx' = idx + 1
    /\ UNCHANGED <<env, pc, calls, repo_path, proc, spawned, log_output,
                   parsed_dates, shown, exc, stdout, ret, exitStatus>>

\* lines 52-53: fromisoformat raised ValueError
ParseWarning ==
    /\ pc = "parse"
    /\ idx < Len(log_output)
    /\ ~IsBlank(DateStr)
    /\ ~FromIsoFormat(ReplaceZ(DateStr)).ok
    /\ Emit([kind |-> "WarnParse", line |-> DateStr])
    /\ idx' = idx + 1
    /\ UNCHANGED <<env, pc, calls, repo_path, proc, spawned, log_output,
                   parsed_dates, shown, exc, ret, exitStatus>>

\* line 50: astimezone raised OverflowError, which `except ValueError`
\* does not catch; the loop is left
ConvertOverflow ==
    /\ pc = "parse"
    /\ idx < Len(log_output)
    /\ ~IsBlank(DateStr)
    /\ LET p == FromIsoFormat(ReplaceZ(DateStr))
       IN  p.ok /\ ~AsTimezone(p.dt).ok
    /\ idx' = idx + 1
    /\ exc' = "OverflowError"
    /\ pc' = "except"
    /\ UNCHANGED <<env, calls, repo_path, proc, spawned, log_output,
                   parsed_dates, shown, stdout, ret, exitStatus>>

\* lines 49-51
AppendDate ==
    /\ pc = "parse"
    /\ idx < Len(log_output)
    /\ ~IsBlank(DateStr)
    /\ LET p == FromIsoFormat(ReplaceZ(DateStr))
       IN  /\ p.ok
           /\ AsTimezone(p.dt).ok
           /\ parsed_dates' = Append(parsed_dates, AsTimezone(p.dt).dt)
    /\ idx' = idx + 1
    /\ UNCHANGED <<env, pc, calls, repo_path, proc, spawned, log_output,
                   shown, exc, stdout, ret, exitStatus>>

\* the loop is exhausted
ParseDone ==
    /\ pc = "parse"
    /\ idx = Len(log_output)
    /\ pc' = "check_empty"
    /\ UNCHANGED <<env, calls, repo_path, proc, spawned, log_output, idx,
                   parsed_dates, shown, exc, stdout, ret, exitStatus>>

(***************************************************************************)
(* Lines 55-70: emptiness check, sort, report, return                      *)
(***************************************************************************)
\* a check that lets the empty list through
NothingParsed_never(dates) ==
    FALSE

\* `not parsed_dates`
NothingParsed(dates) ==
    dates = <<>>

NoDates ==
    /\ pc = "check_empty"
    /\ NothingParsed(parsed_dates)
    /\ Emit([kind |-> "WarnEmpty", path |-> repo_path])
    /\ ret' = None
    /\ pc' = "main_return"
    /\ UNCHANGED <<env, calls, repo_path, proc, spawned, log_output, idx,
                   parsed_dates, shown, exc, exitStatus>>

\* line 60
SortDates ==
    /\ pc = "check_empty"
    /\ ~NothingParsed(parsed_dates)
    /\ parsed_dates' = ListSort(parsed_dates)
    /\ pc' = "header"
    /\ UNCHANGED <<env, calls, repo_path, proc, spawned, log_output, idx,
                   shown, exc, stdout, ret, exitStatus>>

\* lines 63-64
ShowHeader ==
    /\ pc = "header"
    /\ stdout' = stdout \o <<[kind |-> "Header", path |-> repo_path],
                             [kind |-> "Rule", width |-> RuleWidth]>>
    /\ shown' = 0
    /\ pc' = "dates"
    /\ UNCHANGED <<env, calls, repo_path, proc, spawned, log_output, idx,
                   parsed_dates, exc, ret, exitStatus>>

\* lines 65-66
ShowDate ==
    /\ pc = "dates"
    /\ shown < Len(parsed_dates)
    /\ Emit([kind |-> "Date", fmt |-> StrfTime(parsed_dates[shown + 1])])
    /\ shown' = shown + 1
    /\ UNCHANGED <<env, pc, calls, repo_path, proc, spawned, log_output, idx,
                   parsed_dates, exc, ret, exitStatus>>

\* lines 67-68
ShowFooter ==
    /\ pc = "dates"
    /\ shown = Len(parsed_dates)
    /\ stdout' = stdout \o <<[kind |-> "Rule", width |-> RuleWidth],
                             [kind |-> "Total", n |-> Len(parsed_dates)]>>
    /\ pc' = "return"
    /\ UNCHANGED <<env, calls, repo_path, proc, spawned, log_output, idx,
                   parsed_dates, shown, exc, ret, exitStatus>>

\* line 70
ReturnDates ==
    /\ pc = "return"
    /\ ret' = [kind |-> "list", val |-> parsed_dates]
    /\ pc' = "main_return"
    /\ UNCHANGED <<env, calls, repo_path, proc, spawned, log_output, idx,
                   parsed_dates, shown, exc, stdout, exitStatus>>

(***************************************************************************)
(* The except clauses, lines 72-77                                         *)
(***************************************************************************)
\* a handler list without the final `except Exception`
ExceptClause_gitOnly(e) ==
    IF e = "CalledProcessError" THEN "CalledProcessError" ELSE "none"

\* the first clause that matches the exception
ExceptClause(e) ==
    IF e = "CalledProcessError" THEN "CalledProcessError" ELSE "Exception"

\* lines 72-74
ExceptCalledProcessError ==
    /\ pc = "except"
    /\ ExceptClause(exc) = "CalledProcessError"
    /\ Emit([kind |-> "ErrorGit", output |-> proc.output])
    /\ exc' = "none"
    /\ ret' = None
    /\ pc' = "main_return"
    /\ UNCHANGED <<env, calls, repo_path, proc, spawned, log_output, idx,
                   parsed_dates, shown, exitStatus>>

\* lines 75-77; an exception no clause matches leaves main with a
\* traceback and exit status 1
ExceptException ==
    /\ pc = "except"
    /\ ExceptClause(exc) # "CalledProcessError"
    /\ IF ExceptClause(exc) = "Exception"
       THEN /\ Emit([kind |-> "ErrorUnexpected", error |-> exc])
            /\ exc' = "none"
            /\ ret' = None
            /\ pc' = "main_return"
            /\ UNCHANGED exitStatus
       ELSE /\ exitStatus' = 1
            /\ pc' = "exited"
            /\ UNCHANGED <<stdout, exc, ret>>
    /\ UNCHANGED <<env, calls, repo_path, proc, spawned, log_output, idx,
                   parsed_dates, shown>>

Next ==
    \/ MainUsage
    \/ MainCall
    \/ MainExit
    \/ PathMissing
    \/ PathFound
    \/ NotARepository
    \/ IsRepository
    \/ SpawnGit
    \/ SpawnFails
    \/ Communicate
    \/ GitFailed
    \/ GitSucceeded
    \/ SkipBlank
    \/ ParseWarning
    \/ ConvertOverflow
    \/ AppendDate
    \/ ParseDone
    \/ NoDates
    \/ SortDates
    \/ ShowHeader
    \/ ShowDate
    \/ ShowFooter
    \/ ReturnDates
    \/ ExceptCalledProcessError
    \/ ExceptException

Spec ==
    Init /\ [][Next]_vars

(***************************************************************************)
(* Vocabulary of the properties.                                           *)
(***************************************************************************)
\* get_commit_log has returned (or the process is gone)
Finished ==
    pc \in {"main_return", "exited"}

\* the messages of one kind that were printed
OfKind(kinds) ==
    SelectSeq(stdout, LAMBDA m : m.kind \in kinds)

ReportKinds ==
    {"Header", "Rule", "Date", "Total"}

\* the single argument names a path that passes both checks
ValidPath ==
    Len(argv) = 2 /\ argv[2] \in {"/bogus", "/repo"}

\* git ran and exited with status 0
ToolSucceeded ==
    gitInstalled /\ proc.state = "reaped" /\ proc.status = 0

\* git ran and exited with another status
ToolFailed ==
    gitInstalled /\ proc.state = "reaped" /\ proc.status # 0

\* a non-blank line fromisoformat accepts
Parsable(line) ==
    ~IsBlank(line) /\ FromIsoFormat(ReplaceZ(line)).ok

Unparsable(line) ==
    ~IsBlank(line) /\ ~FromIsoFormat(ReplaceZ(line)).ok

\* the instant a line denotes, read with the offset the line carries
LineInstant(line) ==
    Instant(FromIsoFormat(ReplaceZ(line)).dt)

\* ascending by instant
Ascending(dates) ==
    \A k \in 1..(Len(dates) - 1) : TdLeq(Instant(dates[k]), Instant(dates[k + 1]))

(***************************************************************************)
(* C1: whenever get_commit_log returns a sequence, the sequence is         *)
(* ascending by instant, whatever the order and the offsets of the lines.  *)
(***************************************************************************)
C1_ReturnedAscending ==
    ret.kind = "list" => Ascending(ret.val)

\* a returned sequence whose lines came later-first and with different offsets
C1_Witness ==
    /\ ret.kind = "list"
    /\ \E j, k \in DOMAIN log_output :
          /\ j < k
          /\ Parsable(log_output[j]) /\ Parsable(log_output[k])
          /\ TdLess(LineInstant(log_output[k]), LineInstant(log_output[j]))
          /\ FromIsoFormat(ReplaceZ(log_output[j])).dt.tz
                # FromIsoFormat(ReplaceZ(log_output[k])).dt.tz

(***************************************************************************)
(* C2: after a successful tool invocation, once get_commit_log is over,    *)
(* every non-blank unparsable line of the output has produced exactly one  *)
(* parse warning, every line has been processed, and a returned sequence   *)
(* has exactly one element per non-blank parsable line.                    *)
(***************************************************************************)
C2_EveryLineAccounted ==
    (Finished /\ ToolSucceeded) =>
        /\ idx = Len(log_output)
        /\ Len(OfKind({"WarnParse"}))
              = Cardinality({k \in DOMAIN log_output : Unparsable(log_output[k])})
        /\ (ret.kind = "list" =>
              Len(ret.val) = Cardinality({k \in DOMAIN log_output : Parsable(log_output[k])}))

(***************************************************************************)
(* C3: a path that fails validation gives None, exactly one error message  *)
(* of the matching class and nothing else, and no subprocess.              *)
(***************************************************************************)
C3_ValidationFailure ==
    /\ (Len(argv) = 2 /\ argv[2] \in {"/nowhere", "/plain"}) =>
          /\ spawned = 0
          /\ proc.state = "none"
          /\ (Finished => ret = None)
    /\ (Len(argv) = 2 /\ argv[2] = "/nowhere" /\ Finished) =>
          stdout = <<[kind |-> "ErrorNotFound", path |-> "/nowhere"]>>
    /\ (Len(argv) = 2 /\ argv[2] = "/plain" /\ Finished) =>
          stdout = <<[kind |-> "ErrorNotRepo", path |-> "/plain"]>>

\* the run on the directory without a .git entry is over
C3_Witness ==
    /\ argv = <<"git_chron_job.py", "/plain">>
    /\ pc = "exited"
    /\ ret = None

(***************************************************************************)
(* C4: when git exits with a non-zero status, no line of its output is     *)
(* parsed, and get_commit_log prints the one git-error message carrying    *)
(* the captured output, and nothing else, and returns None.                *)
(***************************************************************************)
C4_ToolFailure ==
    ToolFailed =>
        /\ idx = 0 /\ log_output = <<>> /\ parsed_dates = <<>>
        /\ OfKind(ReportKinds \cup {"WarnParse", "WarnEmpty"}) = <<>>
        /\ (Finished =>
              /\ ret = None
              /\ stdout = <<[kind |-> "ErrorGit", output |-> proc.output]>>)

\* git refused the path and the run is over
C4_Witness ==
    /\ ToolFailed
    /\ pc = "exited"
    /\ stdout # <<>>

(***************************************************************************)
(* C5: if parsing recovers no timestamp, get_commit_log prints the         *)
(* no-valid-commit-dates warning, prints no report and returns None; and   *)
(* a repository with zero commits ends in that outcome.                    *)
(***************************************************************************)
C5_EmptyHistoryWarned ==
    /\ (Finished /\ ToolSucceeded /\ idx = Len(log_output) /\ parsed_dates = <<>>) =>
          /\ ret = None
          /\ Len(OfKind({"WarnEmpty"})) = 1
          /\ OfKind(ReportKinds) = <<>>
    /\ (Finished /\ gitInstalled /\ Len(argv) = 2 /\ argv[2] = "/repo"
          /\ NumCommits(repoLines) = 0) =>
          /\ ret = None
          /\ stdout # <<>>
          /\ stdout[Len(stdout)] = [kind |-> "WarnEmpty", path |-> "/repo"]

(***************************************************************************)
(* C6: with an argument count other than one, main prints the usage text,  *)
(* exits with status 1 and never calls get_commit_log; with exactly one    *)
(* argument get_commit_log is called exactly once, with that argument.     *)
(***************************************************************************)
C6_ArgumentCount ==
    /\ Len(argv) # 2 =>
          /\ calls = <<>>
          /\ spawned = 0
          /\ pc \in {"main", "exited"}
          /\ (pc = "exited" => exitStatus = 1 /\ stdout = <<[kind |-> "Usage"]>>)
    /\ Len(argv) = 2 =>
          /\ OfKind({"Usage"}) = <<>>
          /\ (pc = "main" => calls = <<>>)
          /\ (pc # "main" => calls = <<argv[2]>>)

\* a run with two arguments has ended
C6_Witness ==
    /\ Len(argv) = 3
    /\ pc = "exited"

(***************************************************************************)
(* C7: with exactly one argument the process ends with exit status 0       *)
(* whatever happened: no exception is left unhandled, and every failure    *)
(* ends in a printed message and a None return value.                      *)
(***************************************************************************)
C7_ExitZero ==
    (Len(argv) = 2 /\ pc = "exited") =>
        /\ exitStatus = 0
        /\ exc = "none"
        /\ ret # Unset
        /\ (ret = None =>
              /\ stdout # <<>>
              /\ stdout[Len(stdout)].kind \in
                    {"ErrorNotFound", "ErrorNotRepo", "ErrorGit",
                     "ErrorUnexpected", "WarnEmpty"})

\* a run in which git was missing has ended
C7_Witness ==
    /\ Len(argv) = 2
    /\ pc = "exited"
    /\ ~gitInstalled
    /\ OfKind({"ErrorUnexpected"}) # <<>>

(***************************************************************************)
(* C8: a call whose path passes validation starts exactly one subprocess,  *)
(* and the subprocess is reaped (output read, status taken) before a line  *)
(* is parsed, before any of the report is printed and before the return.   *)
(***************************************************************************)
C8_OneSubprocess ==
    /\ spawned <= 1
    /\ (pc \notin {"main", "check_exists", "check_git", "spawn"} /\ ValidPath)
          => spawned = 1
    /\ (\/ idx > 0
        \/ log_output # <<>>
        \/ parsed_dates # <<>>
        \/ OfKind(ReportKinds \cup {"WarnParse", "WarnEmpty", "ErrorGit"}) # <<>>
        \/ (ValidPath /\ pc \in {"parse", "check_empty", "header", "dates",
                                 "return", "except", "main_return", "exited"}))
          => proc.state = "reaped"

\* a run that printed a report has ended
C8_Witness ==
    /\ pc = "exited"
    /\ spawned = 1
    /\ ret.kind = "list"

(***************************************************************************)
(* C9: every converted timestamp is the instant of its line, expressed in  *)
(* US Pacific wall-clock time under the daylight-saving rule in force at   *)
(* that instant: 2024-01-15T12:00:00-05:00 becomes Monday 2024-01-15       *)
(* 09:00:00 PST and 2024-07-15T12:00:00Z becomes Monday 2024-07-15         *)
(* 05:00:00 PDT.                                                           *)
(***************************************************************************)
\* the parsable lines the loop has taken so far, in order
Taken ==
    SelectSeq(SubSeq(log_output, 1, idx), Parsable)

\* Pacific wall-clock rule: daylight time runs from 03:00 PDT on the second
\* Sunday of March up to 02:00 PDT on the first Sunday of November
PacificWallRule(dt) ==
    LET spring == Ymd2Ord(dt.year, 3, NthSunday(dt.year, 3, 2))
        fall   == Ymd2Ord(dt.year, 11, NthSunday(dt.year, 11, 1))
        w      == Wall(dt)
    IN  /\ dt.tz \in {PST, PDT}
        /\ dt.tz = PDT => TdLeq(<<spring, 10800>>, w) /\ TdLess(w, <<fall, 7200>>)
        /\ dt.tz = PST => TdLess(w, <<spring, 7200>>) \/ TdLeq(<<fall, 3600>>, w)

ReportOf(path, dates) ==
    <<[kind |-> "Header", path |-> path], [kind |-> "Rule", width |-> 60]>>
    \o [k \in 1..Len(dates) |-> [kind |-> "Date", fmt |-> StrfTime(dates[k])]]
    \o <<[kind |-> "Rule", width |-> 60], [kind |-> "Total", n |-> Len(dates)]>>

C10_ReportShape ==
    /\ ret.kind = "list" =>
          /\ ret.val # <<>>
          /\ LET nWarn == Len(stdout) - (Len(ret.val) + 4)
             IN  /\ nWarn >= 0
                 /\ \A k \in 1..nWarn : stdout[k].kind = "WarnParse"
                 /\ SubSeq(stdout, nWarn + 1, Len(stdout)) = ReportOf(argv[2], ret.val)
    /\ (Finished /\ ret.kind # "list") => OfKind(ReportKinds) = <<>>

\* a report of two or more dates that follows a parse warning
C10_Witness ==
    /\ ret.kind = "list"
    /\ Len(ret.val) >= 2
    /\ OfKind({"WarnParse"}) # <<>>

====
